---- MODULE Spec2Model ----
(***************************************************************************)
(* A model of three parts of arrow2:                                       *)
(*   - compute::take for boolean and primitive arrays (checked/unchecked), *)
(*   - the MutableFixedSizeBinaryArray builder,                            *)
(*   - the Simd8 lane abstraction over packed_simd.                        *)
(* Each part has its own specification (SpecTake, SpecBuilder, SpecSimd);  *)
(* the variables of the other parts stay at their idle values.             *)
(***************************************************************************)
EXTENDS Integers, Sequences, FiniteSets, TLC

VARIABLES
    component,      \* "take", "builder" or "simd": the part this behaviour runs
    kind,           \* take: "boolean" or "primitive" values array
    values,         \* take: the values array  [values, validity]
    indices,        \* take: the index array   [values, validity]
    taken,          \* take: result of take(values, indices), or NotRun
    takenUnchecked, \* take: result of take_unchecked(values, indices), or NotRun
    intoMode,       \* take: how Option<Bitmap>::from(MutableBitmap) behaves
    builder,        \* builder: MutableFixedSizeBinaryArray [size, values, validity]
    prev,           \* builder: the builder as it was before the last call
    last,           \* builder: the last call and what it returned
    hist,           \* builder: the items pushed since the builder was last empty
    array,          \* builder: the FixedSizeBinaryArray last frozen, or NoArray
    arrayHist,      \* builder: the items pushed into `array`
    loaded,         \* simd: the partial slice and pad value `x` is loaded from
    chunk,          \* simd: the full chunk `y` is loaded from
    x,              \* simd: left lanes, or Unloaded
    y,              \* simd: right lanes, or Unloaded
    mask            \* simd: the last comparison and its u8 result

takeVars == <<kind, values, indices, taken, takenUnchecked, intoMode>>
builderVars == <<builder, prev, last, hist, array, arrayHist>>
simdVars == <<loaded, chunk, x, y, mask>>
vars == <<component, takeVars, builderVars, simdVars>>

\* ---------------------------------------------------------------- bounds
MaxValues == 2      \* longest values array
MaxIndices == 2     \* longest index array
MaxSize == 2        \* largest element size of the builder
MaxPush == 3        \* most successful pushes in one behaviour
MaxChunk == 2       \* longest partial chunk / free prefix of a full chunk

\* ---------------------------------------------------------------- common
None == [some |-> FALSE, bits |-> <<>>]
Some(b) == [some |-> TRUE, bits |-> b]

Ok(v) == [ok |-> TRUE, v |-> v]
Err(e) == [ok |-> FALSE, err |-> e]

SeqsUpTo(S, n) == UNION {[1..m -> S] : m \in 0..n}

\* Array::null_count: the number of unset bits of the validity, 0 without one.
null_count(a) ==
    IF a.validity.some
    THEN Cardinality({k \in 1..Len(a.validity.bits) : ~a.validity.bits[k]})
    ELSE 0

\* Array::iter of a PrimitiveArray: Some(value) per valid slot, None per null.
is_some(a, k) == IF a.validity.some THEN a.validity.bits[k] ELSE TRUE

\* Index::to_usize behind maybe_usize: a negative index has no usize.
maybe_usize(index) ==
    IF index < 0 THEN Err("KeyOverflowError") ELSE Ok(index)

\* The number of items a fallible trusted-len collection pulls from a lazy
\* iterator: all of them, or up to and including the first Err.
Consumed(items) ==
    IF \E k \in 1..Len(items) : ~items[k].ok
    THEN CHOOSE k \in 1..Len(items) :
            ~items[k].ok /\ \A j \in 1..(k - 1) : items[j].ok
    ELSE Len(items)

\* Bitmap::try_from_trusted_len_iter / MutableBuffer::try_from_trusted_len_iter:
\* the first Err of the iterator, else the collected values.
try_from_trusted_len_iter(items) ==
    IF \E k \in 1..Len(items) : ~items[k].ok
    THEN Err(items[Consumed(items)].err)
    ELSE Ok([k \in 1..Len(items) |-> items[k].v])

\* slice.get(index).ok_or(KeyOverflowError), Bitmap::get(index).ok_or(..)
get_checked(vs, index) ==
    IF index < Len(vs) THEN Ok(vs[index + 1]) ELSE Err("KeyOverflowError")

\* (mutant) the closure forgets to look the validity bit up
get_checked2_valid(vs, validity, index) ==
    LET v == get_checked(vs, index)
    IN  IF ~v.ok THEN v ELSE Ok(<<v.v, TRUE>>)

\* the checked closure over values and validity: both lookups must succeed
get_checked2(vs, validity, index) ==
    LET v == get_checked(vs, index)
        b == get_checked(validity, index)
    IN  IF ~v.ok THEN v
        ELSE IF ~b.ok THEN b
        ELSE Ok(<<v.v, b.v>>)

\* (mutant) the unchecked read is off by one element
get_unchecked_next(vs, index, junk) ==
    IF index + 1 < Len(vs) THEN vs[index + 2] ELSE junk

\* slice.get_unchecked(index): the element when in bounds; out of bounds is
\* undefined behaviour, modelled as reading an arbitrary value `junk`.
get_unchecked(vs, index, junk) ==
    IF index < Len(vs) THEN vs[index + 1] ELSE junk

get_unchecked2(vs, validity, index, junk, junkBit) ==
    Ok(<<get_unchecked(vs, index, junk), get_unchecked(validity, index, junkBit)>>)

\* The `get` closure take and take_unchecked hand to the four strategies:
\* the checked one, or the unchecked one with what its out-of-bounds reads
\* return.
Checked == [checked |-> TRUE]
Unchecked(junk, junkBit) == [checked |-> FALSE, junk |-> junk, junkBit |-> junkBit]

\* calling the closure |values, index|
get1(get, vs, index) ==
    IF get.checked THEN get_checked(vs, index)
    ELSE Ok(get_unchecked(vs, index, get.junk))

\* calling the closure |values, validity, index|
get2(get, vs, validity, index) ==
    IF get.checked THEN get_checked2(vs, validity, index)
    ELSE get_unchecked2(vs, validity, index, get.junk, get.junkBit)


\* From<MutableBitmap> for Option<Bitmap> (`validity.into()`). The conversion
\* lives in the bitmap module; `mode` selects between its two possible
\* behaviours: "keep" wraps every bitmap, "drop" yields None for a bitmap with
\* no unset bit.
bitmap_into(bits, mode) ==
    IF mode = "drop" /\ \A k \in 1..Len(bits) : bits[k] THEN None ELSE Some(bits)

\* (mutant) the closure pushes a bit only for the valid slots
Pushed_only_valid(items) ==
    LET n == IF \A k \in 1..Len(items) : items[k].ok
             THEN Len(items) ELSE Consumed(items) - 1
    IN  SelectSeq([k \in 1..n |-> items[k].v[2]], LAMBDA b : b)

\* The bits pushed to `validity` by the closure of a lazily consumed iterator:
\* one per item pulled that did not fail, in order.
Pushed(items) ==
    LET n == IF \A k \in 1..Len(items) : items[k].ok
             THEN Len(items) ELSE Consumed(items) - 1
    IN  [k \in 1..n |-> items[k].v[2]]

First(items) ==
    [k \in 1..Len(items) |-> IF items[k].ok THEN Ok(items[k].v[1]) ELSE items[k]]

\* --------------------------------------------- compute/take/boolean.rs
\* take implementation when neither values nor indices contain nulls
boolean_take_no_validity(vs, ix, get) ==
    LET item(k) == LET index == maybe_usize(ix[k])
                   IN  IF index.ok THEN get1(get, vs, index.v) ELSE index
        buffer == try_from_trusted_len_iter([k \in 1..Len(ix) |-> item(k)])
    IN  IF buffer.ok THEN Ok(<<buffer.v, None>>) ELSE buffer

\* take implementation when only values contain nulls
boolean_take_values_validity(vals, ix, get, mode) ==
    LET validity_values == vals.validity.bits
        values_values == vals.values
        item(k) == LET index == maybe_usize(ix[k])
                   IN  IF index.ok
                       THEN get2(get, values_values, validity_values, index.v)
                       ELSE index
        items == [k \in 1..Len(ix) |-> item(k)]
        validity == Pushed(items)
        buffer == try_from_trusted_len_iter(First(items))
    IN  IF buffer.ok THEN Ok(<<buffer.v, bitmap_into(validity, mode)>>) ELSE buffer

\* take implementation when only indices contain nulls
boolean_take_indices_validity(vs, idx, get) ==
    LET item(k) == IF is_some(idx, k)
                   THEN LET index == maybe_usize(idx.values[k])
                        IN  IF index.ok THEN get1(get, vs, index.v) ELSE index
                   ELSE Ok(FALSE)
        buffer == try_from_trusted_len_iter([k \in 1..Len(idx.values) |-> item(k)])
    IN  IF buffer.ok THEN Ok(<<buffer.v, idx.validity>>) ELSE buffer

\* take implementation when both values and indices contain nulls
boolean_take_values_indices_validity(vals, idx, get, mode) ==
    LET values_validity == vals.validity.bits
        values_values == vals.values
        item(k) == IF is_some(idx, k)
                   THEN LET index == maybe_usize(idx.values[k])
                        IN  IF index.ok
                            THEN get2(get, values_values, values_validity, index.v)
                            ELSE index
                   ELSE Ok(<<FALSE, FALSE>>)
        items == [k \in 1..Len(idx.values) |-> item(k)]
        validity == Pushed(items)
        buffer == try_from_trusted_len_iter(First(items))
    IN  IF buffer.ok THEN Ok(<<buffer.v, bitmap_into(validity, mode)>>) ELSE buffer

\* `take` implementation for boolean arrays
boolean_take(vals, idx, mode) ==
    LET indices_has_validity == null_count(idx) > 0
        values_has_validity == null_count(vals) > 0
        r == CASE ~values_has_validity /\ ~indices_has_validity ->
                    boolean_take_no_validity(vals.values, idx.values, Checked)
               [] values_has_validity /\ ~indices_has_validity ->
                    boolean_take_values_validity(vals, idx.values, Checked, mode)
               [] ~values_has_validity /\ indices_has_validity ->
                    boolean_take_indices_validity(vals.values, idx, Checked)
               [] values_has_validity /\ indices_has_validity ->
                    boolean_take_values_indices_validity(vals, idx, Checked, mode)
    IN  IF r.ok THEN Ok([values |-> r.v[1], validity |-> r.v[2]]) ELSE r

\* `take_unchecked` implementation for boolean arrays; `junk` and `junkBit`
\* are what an out-of-bounds read happens to return.
boolean_take_unchecked(vals, idx, mode, junk, junkBit) ==
    LET indices_has_validity == null_count(idx) > 0
        values_has_validity == null_count(vals) > 0
        r == CASE ~values_has_validity /\ ~indices_has_validity ->
                    boolean_take_no_validity(vals.values, idx.values, Unchecked(junk, junkBit))
               [] values_has_validity /\ ~indices_has_validity ->
                    boolean_take_values_validity(vals, idx.values, Unchecked(junk, junkBit), mode)
               [] ~values_has_validity /\ indices_has_validity ->
                    boolean_take_indices_validity(vals.values, idx, Unchecked(junk, junkBit))
               [] values_has_validity /\ indices_has_validity ->
                    boolean_take_values_indices_validity(vals, idx, Unchecked(junk, junkBit), mode)
    IN  IF r.ok THEN Ok([values |-> r.v[1], validity |-> r.v[2]]) ELSE r
\* --------------------------------------------- compute/take/primitive.rs
\* take implementation when neither values nor indices contain nulls
primitive_take_no_validity(vs, ix, get) ==
    LET item(k) == LET index == maybe_usize(ix[k])
                   IN  IF index.ok THEN get1(get, vs, index.v) ELSE index
        buffer == try_from_trusted_len_iter([k \in 1..Len(ix) |-> item(k)])
    IN  IF buffer.ok THEN Ok(<<buffer.v, None>>) ELSE buffer

\* take implementation when only values contain nulls
primitive_take_values_validity(vals, ix, get, mode) ==
    LET validity_values == vals.validity.bits
        values_values == vals.values
        item(k) == LET index == maybe_usize(ix[k])
                   IN  IF index.ok
                       THEN get2(get, values_values, validity_values, index.v)
                       ELSE index
        items == [k \in 1..Len(ix) |-> item(k)]
        validity == Pushed(items)
        buffer == try_from_trusted_len_iter(First(items))
    IN  IF buffer.ok THEN Ok(<<buffer.v, bitmap_into(validity, mode)>>) ELSE buffer

\* take implementation when only indices contain nulls
primitive_take_indices_validity(vs, idx, get) ==
    LET item(k) == IF is_some(idx, k)
                   THEN LET index == maybe_usize(idx.values[k])
                        IN  IF index.ok THEN get1(get, vs, index.v) ELSE index
                   ELSE Ok(0)
        buffer == try_from_trusted_len_iter([k \in 1..Len(idx.values) |-> item(k)])
    IN  IF buffer.ok THEN Ok(<<buffer.v, idx.validity>>) ELSE buffer

\* take implementation when both values and indices contain nulls
primitive_take_values_indices_validity(vals, idx, get, mode) ==
    LET values_validity == vals.validity.bits
        values_values == vals.values
        item(k) == IF is_some(idx, k)
                   THEN LET index == maybe_usize(idx.values[k])
                        IN  IF index.ok
                            THEN get2(get, values_values, values_validity, index.v)
                            ELSE index
                   ELSE Ok(<<0, FALSE>>)
        items == [k \in 1..Len(idx.values) |-> item(k)]
        validity == Pushed(items)
        buffer == try_from_trusted_len_iter(First(items))
    IN  IF buffer.ok THEN Ok(<<buffer.v, bitmap_into(validity, mode)>>) ELSE buffer

\* (mutant) with nulls only in the indices, every slot is looked up, the
\* null ones included
primitive_take_nulls_checked(vals, idx, mode) ==
    LET indices_has_validity == null_count(idx) > 0
        values_has_validity == null_count(vals) > 0
        r == CASE ~values_has_validity /\ ~indices_has_validity ->
                    primitive_take_no_validity(vals.values, idx.values, Checked)
               [] values_has_validity /\ ~indices_has_validity ->
                    primitive_take_values_validity(vals, idx.values, Checked, mode)
               [] ~values_has_validity /\ indices_has_validity ->
                    primitive_take_no_validity(vals.values, idx.values, Checked)
               [] values_has_validity /\ indices_has_validity ->
                    primitive_take_values_indices_validity(vals, idx, Checked, mode)
    IN  IF r.ok THEN Ok([values |-> r.v[1], validity |-> r.v[2]]) ELSE r

\* `take` implementation for primitive arrays
primitive_take(vals, idx, mode) ==
    LET indices_has_validity == null_count(idx) > 0
        values_has_validity == null_count(vals) > 0
        r == CASE ~values_has_validity /\ ~indices_has_validity ->
                    primitive_take_no_validity(vals.values, idx.values, Checked)
               [] values_has_validity /\ ~indices_has_validity ->
                    primitive_take_values_validity(vals, idx.values, Checked, mode)
               [] ~values_has_validity /\ indices_has_validity ->
                    primitive_take_indices_validity(vals.values, idx, Checked)
               [] values_has_validity /\ indices_has_validity ->
                    primitive_take_values_indices_validity(vals, idx, Checked, mode)
    IN  IF r.ok THEN Ok([values |-> r.v[1], validity |-> r.v[2]]) ELSE r

\* `take_unchecked` implementation for primitive arrays; `junk` and `junkBit`
\* are what an out-of-bounds read happens to return.
primitive_take_unchecked(vals, idx, mode, junk, junkBit) ==
    LET indices_has_validity == null_count(idx) > 0
        values_has_validity == null_count(vals) > 0
        r == CASE ~values_has_validity /\ ~indices_has_validity ->
                    primitive_take_no_validity(vals.values, idx.values, Unchecked(junk, junkBit))
               [] values_has_validity /\ ~indices_has_validity ->
                    primitive_take_values_validity(vals, idx.values, Unchecked(junk, junkBit), mode)
               [] ~values_has_validity /\ indices_has_validity ->
                    primitive_take_indices_validity(vals.values, idx, Unchecked(junk, junkBit))
               [] values_has_validity /\ indices_has_validity ->
                    primitive_take_values_indices_validity(vals, idx, Unchecked(junk, junkBit), mode)
    IN  IF r.ok THEN Ok([values |-> r.v[1], validity |-> r.v[2]]) ELSE r


\* ============================================================ take: state
NotRun == Err("not run")
HasRun(r) == IF r.ok THEN TRUE ELSE r.err # "not run"

BoolVals == BOOLEAN
PrimVals == {0, 7}
Elems(k) == IF k = "boolean" THEN BoolVals ELSE PrimVals

\* every array of at most n slots over S, with and without a validity bitmap
Arrays(S, n) ==
    UNION {{[values |-> vs, validity |-> vd] :
                vd \in {None} \cup {Some(b) : b \in [1..Len(vs) -> BOOLEAN]}} :
           vs \in SeqsUpTo(S, n)}

\* index values: negative, in range for some values array, past every one
IndexVals == -1..MaxValues

IdleTake ==
    /\ kind = "idle"
    /\ values = [values |-> <<>>, validity |-> None]
    /\ indices = [values |-> <<>>, validity |-> None]
    /\ taken = NotRun
    /\ takenUnchecked = NotRun
    /\ intoMode = "keep"

InitTakeVars ==
    /\ kind \in {"boolean", "primitive"}
    /\ values \in Arrays(Elems(kind), MaxValues)
    /\ indices \in Arrays(IndexVals, MaxIndices)
    /\ taken = NotRun
    /\ takenUnchecked = NotRun
    /\ intoMode \in {"keep", "drop"}

take(vals, idx, mode) ==
    IF kind = "boolean" THEN boolean_take(vals, idx, mode)
    ELSE primitive_take(vals, idx, mode)

take_unchecked(vals, idx, mode, junk, junkBit) ==
    IF kind = "boolean" THEN boolean_take_unchecked(vals, idx, mode, junk, junkBit)
    ELSE primitive_take_unchecked(vals, idx, mode, junk, junkBit)

\* take_unchecked reads past the end of `values`: some index the iteration
\* reaches (no earlier index failed maybe_usize) is non-null and >= len.
ReadsOutOfBounds(vals, idx) ==
    LET nonnull(k) == null_count(idx) = 0 \/ is_some(idx, k)
        bad(k) == nonnull(k) /\ idx.values[k] < 0
        oob(k) == nonnull(k) /\ idx.values[k] >= Len(vals.values)
    IN  \E k \in 1..Len(idx.values) : oob(k) /\ \A j \in 1..(k - 1) : ~bad(j)

\* ---------------------------------------------------------- take: actions
Take ==
    /\ component = "take"
    /\ ~HasRun(taken)
    /\ taken' = take(values, indices, intoMode)
    /\ UNCHANGED <<component, kind, values, indices, takenUnchecked, intoMode,
                   builderVars, simdVars>>

\* take_unchecked is run on the inputs take has seen, so that the two results
\* can be compared. In bounds the result is determined; out of bounds the
\* read returns whatever lies there.
TakeUnchecked ==
    /\ component = "take"
    /\ HasRun(taken) /\ ~HasRun(takenUnchecked)
    /\ \E junk \in Elems(kind), junkBit \in BOOLEAN :
          takenUnchecked' = take_unchecked(values, indices, intoMode, junk, junkBit)
    /\ UNCHANGED <<component, kind, values, indices, taken, intoMode,
                   builderVars, simdVars>>

\* ... or the out-of-bounds read faults.
TakeUncheckedFault ==
    /\ component = "take"
    /\ HasRun(taken) /\ ~HasRun(takenUnchecked)
    /\ ReadsOutOfBounds(values, indices) = TRUE
    /\ takenUnchecked' = Err("fault")
    /\ UNCHANGED <<component, kind, values, indices, taken, intoMode,
                   builderVars, simdVars>>

NextTake == Take \/ TakeUnchecked \/ TakeUncheckedFault


\* ============================== array/fixed_size_binary/mutable.rs: builder
ByteVals == {0, 1}

\* Option<&[u8]> handed to try_push / push
Null == [some |-> FALSE, bytes |-> <<>>]
Bytes(b) == [some |-> TRUE, bytes |-> b]

\* MutableBuffer::extend_from_slice, MutableBuffer / MutableBitmap::extend_constant
extend_from_slice(buf, slice) == buf \o slice
extend_constant(buf, additional, v) == buf \o [k \in 1..additional |-> v]

\* MutableBitmap::set
set(bits, i, v) == [bits EXCEPT ![i + 1] = v]

\* FixedSizeBinaryArray::from_data: the immutable array over the moved buffers
FixedSizeBinaryArray(data_type, vs, validity) ==
    [size |-> data_type, values |-> vs, validity |-> validity]

NoArray == FixedSizeBinaryArray(0, <<>>, None)

\* MutableFixedSizeBinaryArray::from_data; both assertions hold for the empty
\* buffers new and with_capacity pass.
from_data(size, vs, validity) ==
    IF Len(vs) % size # 0 \/ (validity.some /\ Len(validity.bits) # Len(vs) \div size)
    THEN [panic |-> TRUE]
    ELSE [data_type |-> size, size |-> size, values |-> vs, validity |-> validity]

\* the capacity only reserves memory
with_capacity(size, capacity) == from_data(size, <<>>, None)

new(size) == with_capacity(size, 0)

\* MutableArray::len
len(self) == Len(self.values) \div self.size

\* value(i): the i-th element's bytes (i counts from 0)
value(self, i) == SubSeq(self.values, i * self.size + 1, (i + 1) * self.size)

\* (mutant) the backfill marks index 0 null instead of the last element
init_validity_first(self) ==
    LET validity == extend_constant(<<>>, len(self), TRUE)
    IN  [self EXCEPT !.validity = Some(set(validity, 0, FALSE))]

init_validity(self) ==
    LET validity == extend_constant(<<>>, len(self), TRUE)
    IN  [self EXCEPT !.validity = Some(set(validity, len(self) - 1, FALSE))]

\* (mutant) the bytes are appended before their length is checked
try_push_partial(self, v) ==
    IF v.some
    THEN LET pushed == [self EXCEPT !.values = extend_from_slice(@, v.bytes)]
         IN  IF self.size # Len(v.bytes)
             THEN [res |-> "InvalidArgumentError", self |-> pushed]
             ELSE [res |-> "Ok",
                   self |-> IF pushed.validity.some
                            THEN [pushed EXCEPT !.validity = Some(Append(@.bits, TRUE))]
                            ELSE pushed]
    ELSE LET pushed == [self EXCEPT !.values = extend_constant(@, self.size, 0)]
         IN  [res |-> "Ok",
              self |-> IF pushed.validity.some
                       THEN [pushed EXCEPT !.validity = Some(Append(@.bits, FALSE))]
                       ELSE init_validity(pushed)]

\* try_push: the result and the builder afterwards
try_push(self, v) ==
    IF v.some
    THEN IF self.size # Len(v.bytes)
         THEN [res |-> "InvalidArgumentError", self |-> self]
         ELSE LET pushed == [self EXCEPT !.values = extend_from_slice(@, v.bytes)]
              IN  [res |-> "Ok",
                   self |-> IF pushed.validity.some
                            THEN [pushed EXCEPT !.validity = Some(Append(@.bits, TRUE))]
                            ELSE pushed]
    ELSE LET pushed == [self EXCEPT !.values = extend_constant(@, self.size, 0)]
         IN  [res |-> "Ok",
              self |-> IF pushed.validity.some
                       THEN [pushed EXCEPT !.validity = Some(Append(@.bits, FALSE))]
                       ELSE init_validity(pushed)]

\* push: try_push(value).unwrap()
push(self, v) ==
    LET r == try_push(self, v)
    IN  IF r.res = "Ok" THEN r ELSE [res |-> "panic", self |-> r.self]

\* MutableArray::push_null
push_null(self) ==
    [self EXCEPT !.values = extend_constant(@, self.size, 0)]

\* MutableArray::as_arc: the array returned and the builder left behind by
\* the two std::mem::take calls
as_arc(self) ==
    [array |-> FixedSizeBinaryArray(self.size, self.values, self.validity),
     self |-> [self EXCEPT !.values = <<>>, !.validity = None]]

\* (mutant) the validity is not moved into the array
into_no_validity(other) == FixedSizeBinaryArray(other.data_type, other.values, None)

\* From<MutableFixedSizeBinaryArray> for FixedSizeBinaryArray
into(other) == FixedSizeBinaryArray(other.data_type, other.values, other.validity)

\* ---------------------------------------------------------- builder: state
\* `last.arg`: the length of the bytes handed to the last push; NoArg for None
\* and for the calls that take no bytes
NoArg == [some |-> FALSE, len |-> 0]
Arg(n) == [some |-> TRUE, len |-> n]

IdleBuilder ==
    /\ builder = [data_type |-> 0, size |-> 0, values |-> <<>>, validity |-> None]
    /\ prev = builder
    /\ last = [op |-> "idle", res |-> "Ok", arg |-> NoArg]
    /\ hist = <<>>
    /\ array = NoArray
    /\ arrayHist = <<>>

InitBuilderVars ==
    /\ \E size \in 1..MaxSize, capacity \in 0..MaxPush :
          builder = with_capacity(size, capacity)
    /\ prev = builder
    /\ last = [op |-> "new", res |-> "Ok", arg |-> NoArg]
    /\ hist = <<>>
    /\ array = NoArray
    /\ arrayHist = <<>>

\* the builder can still be called: it was not moved out and no push panicked
Alive == component = "builder" /\ last.op # "into" /\ last.res # "panic"
Room == Len(hist) + Len(arrayHist) < MaxPush

\* the byte strings a caller may hand in: every length up to one past MaxSize
Slices == SeqsUpTo(ByteVals, MaxSize + 1)

Pushed1(v, r) ==
    IF r.res = "Ok" THEN Append(hist, [item |-> v, via |-> "try_push"]) ELSE hist

\* -------------------------------------------------------- builder: actions
TryPushSome ==
    /\ Alive /\ Room
    /\ \E bytes \in Slices :
          LET r == try_push(builder, Bytes(bytes)) IN
          /\ builder' = r.self
          /\ last' = [op |-> "try_push", res |-> r.res, arg |-> Arg(Len(bytes))]
          /\ hist' = Pushed1(Bytes(bytes), r)
    /\ prev' = builder
    /\ UNCHANGED <<component, array, arrayHist, takeVars, simdVars>>

TryPushNone ==
    /\ Alive /\ Room
    /\ LET r == try_push(builder, Null) IN
          /\ builder' = r.self
          /\ last' = [op |-> "try_push", res |-> r.res, arg |-> NoArg]
          /\ hist' = Pushed1(Null, r)
    /\ prev' = builder
    /\ UNCHANGED <<component, array, arrayHist, takeVars, simdVars>>

Push ==
    /\ Alive /\ Room
    /\ \E v \in {Null} \cup {Bytes(b) : b \in Slices} :
          LET r == push(builder, v) IN
          /\ builder' = r.self
          /\ last' = [op |-> "push", res |-> r.res,
                       arg |-> IF v.some THEN Arg(Len(v.bytes)) ELSE NoArg]
          /\ hist' = Pushed1(v, r)
    /\ prev' = builder
    /\ UNCHANGED <<component, array, arrayHist, takeVars, simdVars>>

PushNull ==
    /\ Alive /\ Room
    /\ builder' = push_null(builder)
    /\ last' = [op |-> "push_null", res |-> "Ok", arg |-> NoArg]
    /\ hist' = Append(hist, [item |-> Null, via |-> "push_null"])
    /\ prev' = builder
    /\ UNCHANGED <<component, array, arrayHist, takeVars, simdVars>>

\* at most one as_arc per behaviour; a later freeze is the consuming `into`
AsArc ==
    /\ Alive
    /\ last.op # "as_arc" /\ array = NoArray
    /\ LET r == as_arc(builder) IN
          /\ builder' = r.self
          /\ array' = r.array
    /\ arrayHist' = hist
    /\ hist' = <<>>
    /\ last' = [op |-> "as_arc", res |-> "Ok", arg |-> NoArg]
    /\ prev' = builder
    /\ UNCHANGED <<component, takeVars, simdVars>>

Into ==
    /\ Alive
    /\ array = NoArray
    /\ array' = into(builder)
    /\ arrayHist' = hist
    /\ last' = [op |-> "into", res |-> "Ok", arg |-> NoArg]
    /\ prev' = builder
    /\ UNCHANGED <<component, builder, hist, takeVars, simdVars>>

NextBuilder == TryPushSome \/ TryPushNone \/ Push \/ PushNull \/ AsArc \/ Into


\* ===================================== compute/comparison/simd/packed.rs
Lanes == 1..8
LaneVals == {-1, 0, 1}

\* from_slice_unaligned: the first eight values of the slice, lane i = v[i]
from_chunk(v) == [i \in Lanes |-> v[i]]

\* (mutant) the free lanes are filled with the type's default, not `remaining`
from_incomplete_chunk_default(v, remaining) ==
    from_chunk([i \in Lanes |-> IF i <= Len(v) THEN v[i] ELSE 0])

\* [remaining; 8], then the zip with v overwrites as many lanes as v has
from_incomplete_chunk(v, remaining) ==
    LET a == [i \in Lanes |-> remaining]
        filled == [i \in Lanes |-> IF i <= Len(v) THEN v[i] ELSE a[i]]
    IN  from_chunk(filled)

\* packed_simd's lane-wise comparisons: one boolean per lane
lanes_eq(a, b) == [i \in Lanes |-> a[i] = b[i]]
lanes_ne(a, b) == [i \in Lanes |-> a[i] # b[i]]
lanes_le(a, b) == [i \in Lanes |-> a[i] <= b[i]]
lanes_lt(a, b) == [i \in Lanes |-> a[i] < b[i]]
lanes_ge(a, b) == [i \in Lanes |-> a[i] >= b[i]]
lanes_gt(a, b) == [i \in Lanes |-> a[i] > b[i]]

\* packed_simd's m8x8::bitmask: bit i of the u8 is lane i (lane 0 lowest)
RECURSIVE BitSum(_, _)
BitSum(m, i) ==
    IF i > 8 THEN 0
    ELSE (IF m[i] THEN 2 ^ (i - 1) ELSE 0) + BitSum(m, i + 1)

bitmask(m) == BitSum(m, 1)

\* (mutant) lt_eq compares strictly
lt_eq_strict(self, other) == bitmask(lanes_lt(self, other))

eq(self, other) == bitmask(lanes_eq(self, other))
neq(self, other) == bitmask(lanes_ne(self, other))
lt_eq(self, other) == bitmask(lanes_le(self, other))
lt(self, other) == bitmask(lanes_lt(self, other))
gt_eq(self, other) == bitmask(lanes_ge(self, other))
gt(self, other) == bitmask(lanes_gt(self, other))

\* ------------------------------------------------------------- simd: state
NoMask == [op |-> "none", bits |-> 0]

\* full chunks: a free prefix of MaxChunk values, then one repeated value
FullChunks ==
    {[i \in Lanes |-> IF i <= MaxChunk THEN v[i] ELSE p] :
        v \in [1..MaxChunk -> LaneVals], p \in LaneVals}

Unloaded == <<>>

IdleSimd ==
    /\ loaded = [v |-> <<>>, pad |-> 0]
    /\ chunk = [i \in Lanes |-> 0]
    /\ x = Unloaded
    /\ y = Unloaded
    /\ mask = NoMask

\* the inputs: a partial slice with its pad value for x, a full chunk for y
InitSimdVars ==
    /\ \E v \in SeqsUpTo(LaneVals, MaxChunk), remaining \in LaneVals :
          loaded = [v |-> v, pad |-> remaining]
    /\ chunk \in FullChunks
    /\ x = Unloaded
    /\ y = Unloaded
    /\ mask = NoMask

\* ----------------------------------------------------------- simd: actions
LoadIncompleteChunk ==
    /\ component = "simd"
    /\ x = Unloaded
    /\ x' = from_incomplete_chunk(loaded.v, loaded.pad)
    /\ UNCHANGED <<component, y, loaded, chunk, mask, takeVars, builderVars>>

LoadChunk ==
    /\ component = "simd"
    /\ y = Unloaded
    /\ y' = from_chunk(chunk)
    /\ UNCHANGED <<component, x, loaded, chunk, mask, takeVars, builderVars>>

BothLoaded == component = "simd" /\ x # Unloaded /\ y # Unloaded

Eq ==
    /\ BothLoaded
    /\ mask' = [op |-> "eq", bits |-> eq(x, y)]
    /\ UNCHANGED <<component, x, y, loaded, chunk, takeVars, builderVars>>

Neq ==
    /\ BothLoaded
    /\ mask' = [op |-> "neq", bits |-> neq(x, y)]
    /\ UNCHANGED <<component, x, y, loaded, chunk, takeVars, builderVars>>

LtEq ==
    /\ BothLoaded
    /\ mask' = [op |-> "lt_eq", bits |-> lt_eq(x, y)]
    /\ UNCHANGED <<component, x, y, loaded, chunk, takeVars, builderVars>>

Lt ==
    /\ BothLoaded
    /\ mask' = [op |-> "lt", bits |-> lt(x, y)]
    /\ UNCHANGED <<component, x, y, loaded, chunk, takeVars, builderVars>>

GtEq ==
    /\ BothLoaded
    /\ mask' = [op |-> "gt_eq", bits |-> gt_eq(x, y)]
    /\ UNCHANGED <<component, x, y, loaded, chunk, takeVars, builderVars>>

Gt ==
    /\ BothLoaded
    /\ mask' = [op |-> "gt", bits |-> gt(x, y)]
    /\ UNCHANGED <<component, x, y, loaded, chunk, takeVars, builderVars>>

NextSimd == LoadIncompleteChunk \/ LoadChunk \/ Eq \/ Neq \/ LtEq \/ Lt \/ GtEq \/ Gt

\* ========================================================= specifications
InitTake == component = "take" /\ InitTakeVars /\ IdleBuilder /\ IdleSimd
InitBuilder == component = "builder" /\ IdleTake /\ InitBuilderVars /\ IdleSimd
InitSimd == component = "simd" /\ IdleTake /\ IdleBuilder /\ InitSimdVars

SpecTake == InitTake /\ [][NextTake]_vars
SpecBuilder == InitBuilder /\ [][NextBuilder]_vars
SpecSimd == InitSimd /\ [][NextSimd]_vars

Init == InitTake \/ InitBuilder \/ InitSimd
Next == NextTake \/ NextBuilder \/ NextSimd
Spec == Init /\ [][Next]_vars


\* ================================================================= claims
\* slot k (from 1) of array a is null
IsNull(a, k) == a.validity.some /\ ~a.validity.bits[k]

\* index slot k holds an offset into `values`
InRange(k) == 0 <= indices.values[k] /\ indices.values[k] < Len(values.values)

Slots == 1..Len(indices.values)

\* every non-null index lies in [0, len(values))
AllInBounds == \A k \in Slots : IsNull(indices, k) \/ InRange(k)

\* slot k of the output has to be null: its index is null or points at a null
SourceNull(k) ==
    IF IsNull(indices, k) THEN TRUE ELSE IsNull(values, indices.values[k] + 1)

\* C1: for in-bounds indices checked take succeeds with one output slot per
\* index; slot k is null iff index k is null or values[index k] is null, and
\* otherwise equals values[index k]; when neither input has a null the
\* output carries no validity mask.
C1_NullPropagation ==
    (HasRun(taken) /\ AllInBounds) =>
        /\ taken.ok
        /\ Len(taken.v.values) = Len(indices.values)
        /\ \A k \in Slots :
              /\ IsNull(taken.v, k) <=> SourceNull(k)
              /\ ~SourceNull(k) =>
                    taken.v.values[k] = values.values[indices.values[k] + 1]
        /\ (null_count(values) = 0 /\ null_count(indices) = 0) =>
              ~taken.v.validity.some

\* nulls on both sides, and the output has a null slot and a non-null one
C1_Witness ==
    /\ HasRun(taken) /\ AllInBounds /\ taken.ok
    /\ null_count(values) > 0 /\ null_count(indices) > 0
    /\ \E k \in Slots : IsNull(indices, k)
    /\ \E k \in Slots : ~IsNull(taken.v, k)

\* C2: checked take returns KeyOverflowError, and no array, iff some
\* non-null index is negative or >= len(values); what is stored under a null
\* index never matters.
C2_KeyOverflowIff ==
    HasRun(taken) =>
        /\ ~taken.ok <=> (\E k \in Slots : ~IsNull(indices, k) /\ ~InRange(k))
        /\ ~taken.ok => (taken.err = "KeyOverflowError" /\ DOMAIN taken = {"ok", "err"})
        /\ taken.ok => DOMAIN taken = {"ok", "v"}

\* an error although a null slot, holding an out-of-range number, came first
C2_Witness ==
    /\ HasRun(taken) /\ ~taken.ok
    /\ Len(indices.values) >= 2
    /\ IsNull(indices, 1) /\ ~InRange(1)

\* C3: for in-bounds indices take and take_unchecked return the same array:
\* both Ok, same values, same validity (or both without one).
C3_UncheckedAgrees ==
    (HasRun(taken) /\ HasRun(takenUnchecked) /\ AllInBounds) =>
        /\ taken.ok
        /\ takenUnchecked.ok
        /\ takenUnchecked.v.values = taken.v.values
        /\ takenUnchecked.v.validity = taken.v.validity

C3_Witness ==
    /\ HasRun(taken) /\ HasRun(takenUnchecked) /\ AllInBounds
    /\ takenUnchecked.ok
    /\ Len(indices.values) >= 2
    /\ null_count(values) > 0
    /\ \E k \in Slots : ~IsNull(takenUnchecked.v, k)

\* ------------------------------------------------------------- builder
\* every item of history h went in through try_push (directly or by push)
OnlyTryPush(h) == \A k \in 1..Len(h) : h[k].via = "try_push"

Zeros(n) == [k \in 1..n |-> 0]

\* array a holds exactly the items of h: their number, the bytes of each (zero
\* bytes for a null), and a null exactly where a null was pushed
Holds(a, h) ==
    /\ Len(a.values) = Len(h) * a.size
    /\ \A i \in 0..(Len(h) - 1) :
          LET item == h[i + 1].item IN
          /\ value(a, i) = (IF item.some THEN item.bytes ELSE Zeros(a.size))
          /\ (a.validity.some /\ i < Len(a.validity.bits) /\ ~a.validity.bits[i + 1])
                <=> ~item.some

Frozen == last.op \in {"into", "as_arc"}

\* C4: after any sequence of try_push calls with bytes of the right length or
\* None, the frozen array has one element per push, slot i holds the i-th
\* pushed bytes (zero bytes for None) and is null iff the i-th push was None.
C4_RoundTrip ==
    (Frozen /\ OnlyTryPush(arrayHist)) =>
        /\ array.size = builder.size
        /\ Holds(array, arrayHist)

C4_Witness ==
    /\ Frozen /\ OnlyTryPush(arrayHist)
    /\ Len(arrayHist) >= 3
    /\ arrayHist[1].item.some /\ ~arrayHist[2].item.some /\ arrayHist[3].item.some
    /\ \E k \in 1..Len(arrayHist[1].item.bytes) : arrayHist[1].item.bytes[k] # 0

\* C5: try_push(Some(bytes)) with len(bytes) # size returns
\* InvalidArgumentError and leaves len(), the value bytes and the validity
\* mask as they were.
C5_RejectedPushUnchanged ==
    (last.op = "try_push" /\ last.arg.some /\ last.arg.len # prev.size) =>
        /\ last.res = "InvalidArgumentError"
        /\ len(builder) = len(prev)
        /\ builder.values = prev.values
        /\ builder.validity = prev.validity

C5_Witness ==
    /\ last.op = "try_push" /\ last.res = "InvalidArgumentError"
    /\ last.arg.len > 0
    /\ len(prev) >= 2
    /\ prev.validity.some

\* C6: along try_push calls the mask is absent exactly while no None has been
\* pushed; the first None, pushed onto n elements, creates a mask of n+1 bits
\* with bits 0..n-1 true and bit n false; every later successful try_push
\* appends one bit, true for Some and false for None.
C6_LazyValidity ==
    OnlyTryPush(hist) =>
        /\ builder.validity.some <=> (\E k \in 1..Len(hist) : ~hist[k].item.some)
        /\ (last.op = "try_push" /\ last.res = "Ok") =>
              IF prev.validity.some
              THEN builder.validity = Some(Append(prev.validity.bits, last.arg.some))
              ELSE IF last.arg.some
              THEN builder.validity = None
              ELSE builder.validity =
                      Some([k \in 1..(len(prev) + 1) |-> k <= len(prev)])

\* the first None arrives when two elements are already there
C6_Witness ==
    /\ OnlyTryPush(hist)
    /\ last.op = "try_push" /\ last.res = "Ok" /\ ~last.arg.some
    /\ ~prev.validity.some
    /\ len(prev) = 2

\* C7: values.len() is a multiple of size and a present validity mask has
\* len() bits, in every state reachable by try_push, push, push_null, as_arc.
C7_BuilderInvariant ==
    (component = "builder") =>
        /\ Len(builder.values) % builder.size = 0
        /\ builder.validity.some => Len(builder.validity.bits) = len(builder)

\* C8: after as_arc the builder is empty with no mask, the array returned
\* holds exactly the elements and nulls pushed before the call, and what is
\* pushed afterwards starts a new array of the same size without showing in
\* the one returned.
C8_AsArcLeavesEmpty ==
    (component = "builder" /\ array # NoArray /\ last.op # "into") =>
        /\ last.op = "as_arc" => (len(builder) = 0 /\ ~builder.validity.some)
        /\ Holds(array, arrayHist)
        /\ builder.size = array.size
        /\ len(builder) = Len(hist)

\* ---------------------------------------------------------------- simd
\* bit i (from 0) of the u8 n
Bit(n, i) == (n \div (2 ^ i)) % 2 = 1

Splat(a) == [i \in Lanes |-> a]

\* C9: from_incomplete_chunk(v, p) has lane i = v[i] for i < len(v) and
\* lane i = p above; so eq of from_incomplete_chunk([a, b], a) against eight
\* lanes of a sets bit 0 and bits 2..7, and bit 1 iff b = a.
C9_IncompleteChunk ==
    /\ x # Unloaded =>
          \A i \in 0..7 :
              x[i + 1] = (IF i < Len(loaded.v) THEN loaded.v[i + 1] ELSE loaded.pad)
    /\ (/\ mask.op = "eq"
        /\ Len(loaded.v) = 2
        /\ loaded.pad = loaded.v[1]
        /\ y = Splat(loaded.v[1])) =>
          /\ Bit(mask.bits, 0)
          /\ \A i \in 2..7 : Bit(mask.bits, i)
          /\ Bit(mask.bits, 1) <=> (loaded.v[2] = loaded.v[1])

C9_Witness ==
    /\ mask.op = "eq"
    /\ Len(loaded.v) = 2
    /\ loaded.pad = loaded.v[1]
    /\ loaded.v[2] # loaded.v[1]
    /\ y = Splat(loaded.v[1])

\* what each comparison means on one lane
LaneHolds(op, a, b) ==
    CASE op = "eq" -> a = b
      [] op = "neq" -> a # b
      [] op = "lt" -> a < b
      [] op = "lt_eq" -> a <= b
      [] op = "gt" -> a > b
      [] op = "gt_eq" -> a >= b

\* C10: bit i of the mask of eq, neq, lt, lt_eq, gt, gt_eq is 1 iff the
\* comparison holds on lane i; neq is the complement of eq and gt_eq the
\* complement of lt.
C10_ComparisonMasks ==
    mask.op # "none" =>
        /\ mask.bits \in 0..255
        /\ \A i \in 0..7 :
              Bit(mask.bits, i) <=> LaneHolds(mask.op, x[i + 1], y[i + 1])
        /\ mask.op = "neq" => mask.bits = 255 - eq(x, y)
        /\ mask.op = "gt_eq" => mask.bits = 255 - lt(x, y)

\* a mask with the low lanes and the high lanes disagreeing
C10_Witness ==
    /\ mask.op = "lt_eq"
    /\ Bit(mask.bits, 0) /\ ~Bit(mask.bits, 1) /\ Bit(mask.bits, 7)
    /\ x[1] = y[1]


\* ------------------------------------------------ take: output lengths
\* array a has one value slot per index and, with a mask, one bit per index
LengthsMatch(a) ==
    /\ Len(a.values) = Len(indices.values)
    /\ a.validity.some => Len(a.validity.bits) = Len(indices.values)

\* C11: whenever take or take_unchecked returns Ok, the output has exactly
\* len(indices) value slots and a present validity mask has exactly
\* len(indices) bits, in each of the four strategies.
C11_OutputLengths ==
    /\ (HasRun(taken) /\ taken.ok) => LengthsMatch(taken.v)
    /\ (HasRun(takenUnchecked) /\ takenUnchecked.ok) => LengthsMatch(takenUnchecked.v)

\* both kernels returned a mask built by the closure of the lazy iterator:
\* values with a null, indices with a null, two indices
C11_Witness ==
    /\ HasRun(taken) /\ taken.ok
    /\ HasRun(takenUnchecked) /\ takenUnchecked.ok
    /\ null_count(values) > 0 /\ null_count(indices) > 0
    /\ Len(indices.values) >= 2
    /\ taken.v.validity.some /\ takenUnchecked.v.validity.some

\* ------------------------------------------------- builder: push_null
\* C12: push_null() does what try_push(None) does: len() grows by one, size
\* zero bytes are appended and the element is recorded as null (the mask is
\* created with backfill when absent, a false bit is appended when present).
C12_PushNullIsTryPushNone ==
    last.op = "push_null" =>
        /\ len(builder) = len(prev) + 1
        /\ builder.values = prev.values \o Zeros(prev.size)
        /\ builder.validity =
              (IF prev.validity.some
               THEN Some(Append(prev.validity.bits, FALSE))
               ELSE Some([k \in 1..(len(prev) + 1) |-> k <= len(prev)]))
        /\ builder = try_push(prev, Null).self

====
